---- MODULE Spec2Model ----
(***************************************************************************)
(* Model of src/main.py: the drag-and-drop widget (MainWidget), its two    *)
(* modes, and the learning-mode "run": a worker thread that launches       *)
(* `ls -la <folder>` and a Clock interval callback (update_label) that     *)
(* drains the child's standard output without blocking and, once the child *)
(* has exited, collects the rest with communicate().                       *)
(*                                                                         *)
(* Text is modelled as a sequence of symbols: one-character strings, the   *)
(* dropped path as one symbol, and the two literals of the label text as   *)
(* one symbol each (RunningText for the "running" marker of lines 95/141,  *)
(* ErrorText for the error prefix of lines 147/162).                       *)
(***************************************************************************)
EXTENDS Naturals, Sequences, FiniteSets

\* ------------------------------------------------------------- bounds
MaxRuns == 2        \* learning-mode runs started in one behaviour
MaxOut  == 2        \* characters written to standard output, all runs together
MaxRows == 1        \* rows in content_box that are not run labels
MaxText == 5        \* characters of a child's output in SpecReconcile

Runs == 1..MaxRuns

\* The characters a child may write: a letter, a blank and a line feed.
Chars == {"a", " ", "\n"}
\* What a child may have written to standard error by the time it exits.
StderrTexts == {<<>>, <<"x">>}
\* Exit statuses of a child.
ExitCodes == {0, 1}
\* What Popen (line 110) or fcntl (lines 120-121) may raise.
LaunchErrors == {"popen", "fcntl"}
\* The dropped paths: a directory (holding the file) and a file.
DirPath  == "d"
FilePath == "f"
Paths == {DirPath, FilePath}
\* The text of the two toggle buttons.
ButtonTexts == {"learn_btn", "classify_btn"}

\* The hosts the module can be loaded on (it imports fcntl, line 4): a
\* POSIX-like one and a Windows-like one, by their sys.platform.
Platforms == {"linux", "cygwin"}
WindowsLike == {"cygwin"}
\* How a read of the non-blocking pipe reports that no data is there: an
\* empty result (line 132) or an IOError (line 135).
ReadEnds == {"empty", "IOError"}

LEARNING == "learning"
CLASSIFICATION == "classification"

RunningText == "running..."
ErrorText == "error: "

\* ------------------------------------------------------------- text
Whitespace == {" ", "\n"}

RECURSIVE lstrip(_)
lstrip(s) ==
  IF s = <<>> THEN s
  ELSE IF Head(s) \in Whitespace THEN lstrip(Tail(s)) ELSE s

RECURSIVE rstrip(_)
rstrip(s) ==
  IF s = <<>> THEN s
  ELSE IF s[Len(s)] \in Whitespace THEN rstrip(SubSeq(s, 1, Len(s) - 1)) ELSE s

\* str.strip()
strip(s) == rstrip(lstrip(s))

\* Index of the first line feed of s, or Len(s) + 1 when it has none.
RECURSIVE FirstNL(_, _)
FirstNL(s, i) ==
  IF i > Len(s) THEN i
  ELSE IF s[i] = "\n" THEN i ELSE FirstNL(s, i + 1)

\* The successive results of process.stdout.readline() over the characters
\* buf that the pipe holds, up to the empty result that ends the loop of
\* lines 130-134. A result keeps its line feed; when the pipe runs dry in the
\* middle of a line the text wrapper returns the part it has.
RECURSIVE readline(_)
readline(buf) ==
  IF buf = <<>> THEN <<>>
  ELSE LET n == FirstNL(buf, 1)
           k == IF n > Len(buf) THEN Len(buf) ELSE n
       IN  <<SubSeq(buf, 1, k)>> \o readline(SubSeq(buf, k + 1, Len(buf)))

\* str.splitlines(): cut at every line feed, no line feeds kept, no empty
\* last piece.
RECURSIVE splitlines(_)
splitlines(s) ==
  IF s = <<>> THEN <<>>
  ELSE LET n == FirstNL(s, 1)
       IN  <<SubSeq(s, 1, n - 1)>> \o splitlines(SubSeq(s, n + 1, Len(s)))

\* "\n".join(lines)
RECURSIVE join(_)
join(ls) ==
  IF ls = <<>> THEN <<>>
  ELSE IF Len(ls) = 1 THEN ls[1]
  ELSE ls[1] \o <<"\n">> \o join(Tail(ls))

InSeq(x, s) == \E i \in 1..Len(s) : s[i] = x

\* Lines 129-137, with output_lines rebuilt from what this tick read.
drain_replace(ls, buf) ==
  LET got == readline(buf)
  IN  [i \in 1..Len(got) |-> strip(got[i])]

\* Lines 129-137: every readline result is stripped and appended.
drain(ls, buf) ==
  LET got == readline(buf)
  IN  ls \o [i \in 1..Len(got) |-> strip(got[i])]

\* Lines 150-152 without the membership test of line 151.
RECURSIVE remaining_all(_, _)
remaining_all(ls, cands) ==
  IF cands = <<>> THEN ls
  ELSE LET s == strip(Head(cands))
       IN  remaining_all(IF s # <<>> THEN Append(ls, s) ELSE ls, Tail(cands))

\* Lines 150-152: a line of the remaining output is appended when its
\* stripped text is not empty and not yet in output_lines.
RECURSIVE remaining(_, _)
remaining(ls, cands) ==
  IF cands = <<>> THEN ls
  ELSE LET s == strip(Head(cands))
       IN  remaining(IF s # <<>> /\ ~InSeq(s, ls) THEN Append(ls, s) ELSE ls,
                     Tail(cands))

\* The label texts.
InitialLabel(path) == <<"[", path, "]", "\n", RunningText>>
RunningLabel(path, ls) == <<"[", path, "]", "\n", RunningText, "\n">> \o join(ls)
\* Line 153 with the running marker of line 141 left in.
FinalLabel_running(path, ls) == <<"[", path, "]", "\n", RunningText, "\n">> \o join(ls)
FinalLabel(path, ls) == <<"[", path, "]", "\n">> \o join(ls)
ErrorLabel(path, e) == <<"[", path, "]", "\n", ErrorText>> \o e

\* ------------------------------------------------------------- state
VARIABLES
  mode,          \* MainWidget.mode
  content_box,   \* the children of content_box, oldest first
  pc,            \* per run: what is pending for it (thread, interval, once)
  state,         \* per run: Starting, Running, Completed, Failed
  target,        \* per run: folder_path
  proc,          \* per run: the child process
  out,           \* per run: all the child has written to standard output
  rd,            \* per run: how much of out the drains have consumed
  errout,        \* per run: the child's standard error
  rc,            \* per run: the child's exit status
  err,           \* per run: the exception caught at line 159
  output_lines,  \* per run: output_lines
  text,          \* per run: result_label.text
  nterm,         \* per run: final texts assigned to the label
  ncomm,         \* per run: calls of process.communicate()
  stdout,        \* per run: the standard output communicate() returned
  cmd,           \* per run: the argument list given to Popen
  platform       \* the host's sys.platform

vars == <<mode, content_box, pc, state, target, proc, out, rd, errout, rc, err,
          output_lines, text, nterm, ncomm, stdout, cmd, platform>>

procvars == <<proc, out, errout, rc, platform>>
runvars == <<pc, state, target, rd, err, output_lines, text, nterm, ncomm,
             stdout, cmd>>

Terminal == {"Completed", "Failed"}

RECURSIVE SumLen(_)
SumLen(S) ==
  IF S = {} THEN 0
  ELSE LET r == CHOOSE x \in S : TRUE IN Len(out[r]) + SumLen(S \ {r})

\* A row of content_box: the label of run r, an image row or the message.
RunRow(r) == [kind |-> "label", run |-> r]
ImageRow(p) == [kind |-> "image", run |-> 0]
MessageRow == [kind |-> "message", run |-> 0]

OtherRows == Cardinality({i \in 1..Len(content_box) : content_box[i].kind # "label"})

\* No run has been started.
NoRuns ==
  /\ pc = [r \in Runs |-> "none"]
  /\ state = [r \in Runs |-> "none"]
  /\ target = [r \in Runs |-> ""]
  /\ proc = [r \in Runs |-> "none"]
  /\ out = [r \in Runs |-> <<>>]
  /\ rd = [r \in Runs |-> 0]
  /\ errout = [r \in Runs |-> <<>>]
  /\ rc = [r \in Runs |-> 0]
  /\ err = [r \in Runs |-> <<>>]
  /\ output_lines = [r \in Runs |-> <<>>]
  /\ text = [r \in Runs |-> <<>>]
  /\ nterm = [r \in Runs |-> 0]
  /\ ncomm = [r \in Runs |-> 0]
  /\ stdout = [r \in Runs |-> <<>>]
  /\ cmd = [r \in Runs |-> <<>>]

\* Lines 27-34 and the empty content_box of the widget tree.
Init ==
  /\ mode = CLASSIFICATION
  /\ content_box = <<>>
  /\ platform = "linux"
  /\ NoRuns

\* ------------------------------------------------------------- widget
\* Lines 42-54.
on_mode_switch(btn) ==
  /\ mode' = IF btn = "learn_btn" THEN LEARNING ELSE CLASSIFICATION
  /\ UNCHANGED <<content_box, runvars, procvars>>

\* Lines 56-79: one image row is appended.
add_classification_item(box, p) == Append(box, ImageRow(p))

\* Lines 81-104 and 166: the label is created and shown, the worker thread
\* is started.
add_learning_item(r, path) ==
  /\ pc[r] = "none"
  /\ \A q \in Runs : q < r => pc[q] # "none"
  /\ content_box' = Append(content_box, RunRow(r))
  /\ text' = [text EXCEPT ![r] = InitialLabel(path)]
  /\ target' = [target EXCEPT ![r] = path]
  /\ state' = [state EXCEPT ![r] = "Starting"]
  /\ pc' = [pc EXCEPT ![r] = "thread"]
  /\ UNCHANGED <<mode, rd, err, output_lines, nterm, ncomm, stdout, cmd,
                 procvars>>

\* Lines 168-174.
clear_items ==
  /\ content_box' = <<>>
  /\ UNCHANGED <<mode, runvars, procvars>>

\* Lines 192-222 without the mode test of line 209: a dropped directory
\* always starts a run.
main_widget_on_drop_any_mode(path) ==
  IF path = DirPath
  THEN \E r \in Runs : add_learning_item(r, path)
  ELSE /\ OtherRows < MaxRows
       /\ content_box' = IF mode = CLASSIFICATION
                         THEN add_classification_item(content_box, path)
                         ELSE Append(content_box, MessageRow)
       /\ UNCHANGED <<mode, runvars, procvars>>

\* Lines 192-222. os.path.isdir holds of DirPath only; os.listdir(DirPath)
\* is the one file FilePath.
main_widget_on_drop(path) ==
  IF path = DirPath
  THEN IF mode = LEARNING
       THEN \E r \in Runs : add_learning_item(r, path)
       ELSE /\ OtherRows < MaxRows
            /\ content_box' = add_classification_item(content_box, FilePath)
            /\ UNCHANGED <<mode, runvars, procvars>>
  ELSE /\ OtherRows < MaxRows
       /\ content_box' = IF mode = CLASSIFICATION
                         THEN add_classification_item(content_box, path)
                         ELSE Append(content_box, MessageRow)
       /\ UNCHANGED <<mode, runvars, procvars>>

\* ------------------------------------------------------------- worker
\* Lines 110-111 with the listing command chosen by platform.
command_by_platform(plat, path) ==
  IF plat \in WindowsLike THEN <<"cmd", "/c", "dir", path>>
  ELSE <<"ls", "-la", path>>

\* Lines 110-111: the argument list of Popen. The platform is not consulted.
command(plat, path) == <<"ls", "-la", path>>

\* Lines 107-163 with the interval registered before the pipe is made
\* non-blocking: when fcntl raises, the run is ticking already.
run_ls_command_early(r) ==
  /\ pc[r] = "thread"
  /\ \/ /\ proc' = [proc EXCEPT ![r] = "alive"]
        /\ pc' = [pc EXCEPT ![r] = "interval"]
        /\ state' = [state EXCEPT ![r] = "Running"]
        /\ UNCHANGED err
     \/ \E e \in LaunchErrors :
          /\ proc' = [proc EXCEPT ![r] = IF e = "fcntl" THEN "alive" ELSE "none"]
          /\ pc' = [pc EXCEPT ![r] = IF e = "fcntl" THEN "interval" ELSE "once"]
          /\ err' = [err EXCEPT ![r] = <<e>>]
          /\ state' = [state EXCEPT ![r] = IF e = "fcntl" THEN "Running" ELSE @]
  /\ cmd' = [cmd EXCEPT ![r] = command(platform, target[r])]
  /\ UNCHANGED <<mode, content_box, target, rd, output_lines, text, nterm,
                 ncomm, stdout, out, errout, rc, platform>>

\* Lines 107-163 with the except handler assigning the label's text itself
\* instead of scheduling show_error.
run_ls_command_direct(r) ==
  /\ pc[r] = "thread"
  /\ \/ /\ proc' = [proc EXCEPT ![r] = "alive"]
        /\ pc' = [pc EXCEPT ![r] = "interval"]
        /\ state' = [state EXCEPT ![r] = "Running"]
        /\ UNCHANGED <<err, text, nterm>>
     \/ \E e \in LaunchErrors :
          /\ proc' = [proc EXCEPT ![r] = IF e = "fcntl" THEN "orphan" ELSE "none"]
          /\ pc' = [pc EXCEPT ![r] = "done"]
          /\ err' = [err EXCEPT ![r] = <<e>>]
          /\ text' = [text EXCEPT ![r] = ErrorLabel(target[r], <<e>>)]
          /\ state' = [state EXCEPT ![r] = "Failed"]
          /\ nterm' = [nterm EXCEPT ![r] = @ + 1]
  /\ cmd' = [cmd EXCEPT ![r] = command(platform, target[r])]
  /\ UNCHANGED <<mode, content_box, target, rd, output_lines,
                 ncomm, stdout, out, errout, rc, platform>>

\* Lines 107-163, the worker thread. Either the child is started, its pipe
\* made non-blocking and the interval registered (line 157), or an exception
\* is caught and show_error is scheduled once (lines 159-163). When fcntl
\* raises the child has been started all the same, but its handle is lost
\* with the frame of run_ls_command: nothing reads its pipes or its status.
run_ls_command(r) ==
  /\ pc[r] = "thread"
  /\ \/ /\ proc' = [proc EXCEPT ![r] = "alive"]
        /\ pc' = [pc EXCEPT ![r] = "interval"]
        /\ state' = [state EXCEPT ![r] = "Running"]
        /\ UNCHANGED err
     \/ \E e \in LaunchErrors :
          /\ proc' = [proc EXCEPT ![r] = IF e = "fcntl" THEN "orphan" ELSE "none"]
          /\ pc' = [pc EXCEPT ![r] = "once"]
          /\ err' = [err EXCEPT ![r] = <<e>>]
          /\ UNCHANGED state
  /\ cmd' = [cmd EXCEPT ![r] = command(platform, target[r])]
  /\ UNCHANGED <<mode, content_box, target, rd, output_lines, text, nterm,
                 ncomm, stdout, out, errout, rc, platform>>

\* Lines 161-162, fired by the clock.
show_error(r) ==
  /\ pc[r] = "once"
  /\ text' = [text EXCEPT ![r] = ErrorLabel(target[r], err[r])]
  /\ state' = [state EXCEPT ![r] = "Failed"]
  /\ nterm' = [nterm EXCEPT ![r] = @ + 1]
  /\ pc' = [pc EXCEPT ![r] = "done"]
  /\ UNCHANGED <<mode, content_box, target, rd, err, output_lines, ncomm,
                 stdout, cmd, procvars>>

\* ------------------------------------------------------------- child
\* The child writes one character to its standard output.
ProcWrite(r, c) ==
  /\ proc[r] = "alive"
  /\ SumLen(Runs) < MaxOut
  /\ out' = [out EXCEPT ![r] = Append(@, c)]
  /\ UNCHANGED <<mode, content_box, runvars, proc, errout, rc, platform>>

\* The child exits, with some status and some standard error.
ProcExit(r, code, e) ==
  /\ proc[r] = "alive"
  /\ proc' = [proc EXCEPT ![r] = "exited"]
  /\ rc' = [rc EXCEPT ![r] = code]
  /\ errout' = [errout EXCEPT ![r] = e]
  /\ UNCHANGED <<mode, content_box, runvars, out, platform>>

\* ------------------------------------------------------------- tick
\* Line 146, `if stderr:`, taken as if it tested the exit status.
stderr_m(r) == rc[r] # 0

\* Line 146, `if stderr:`: the error branch is taken when communicate()
\* returned a non-empty standard error.
stderr(r) == errout[r] # <<>>

\* Lines 142 and 154, with True returned on both paths.
reschedule_always(alive) == "interval"

\* Lines 142 and 154, with False returned on both paths.
reschedule_never(alive) == "done"

\* Lines 142 and 154: the callback returns True while the child is alive,
\* which keeps the interval, and False afterwards, which ends it.
reschedule(alive) == IF alive THEN "interval" ELSE "done"

\* Lines 135-137 without the handler: an IOError leaves the callback.
swallowed_empty_only(how) == how = "empty"

\* Lines 132-137: the loop ends on an empty result, and an IOError of the
\* read is caught and dropped; either way the callback goes on to poll().
swallowed(how) == how \in {"empty", "IOError"}

\* Lines 127-154 with output_lines one list shared by all runs.
update_label_shared(r) ==
  /\ pc[r] = "interval"
  /\ \E k \in rd[r]..Len(out[r]) :
       LET drained == drain(output_lines[r], SubSeq(out[r], rd[r] + 1, k))
           rest == SubSeq(out[r], k + 1, Len(out[r]))
           final == remaining(drained, splitlines(rest))
       IN  IF proc[r] = "alive"
           THEN /\ rd' = [rd EXCEPT ![r] = k]
                /\ output_lines' = [q \in Runs |-> drained]
                /\ text' = [text EXCEPT ![r] = RunningLabel(target[r], drained)]
                /\ UNCHANGED <<state, nterm, ncomm, stdout>>
           ELSE /\ rd' = [rd EXCEPT ![r] = Len(out[r])]
                /\ IF stderr(r)
                   THEN /\ output_lines' = [q \in Runs |-> drained]
                        /\ text' = [text EXCEPT ![r] = ErrorLabel(target[r], errout[r])]
                        /\ state' = [state EXCEPT ![r] = "Failed"]
                   ELSE /\ output_lines' = [q \in Runs |-> final]
                        /\ text' = [text EXCEPT ![r] = FinalLabel(target[r], final)]
                        /\ state' = [state EXCEPT ![r] = "Completed"]
                /\ nterm' = [nterm EXCEPT ![r] = @ + 1]
                /\ ncomm' = [ncomm EXCEPT ![r] = @ + 1]
                /\ stdout' = [stdout EXCEPT ![r] = rest]
  /\ pc' = [pc EXCEPT ![r] = reschedule(proc[r] = "alive")]
  /\ UNCHANGED <<mode, content_box, target, err, cmd, procvars>>

\* Lines 127-154, one firing of the interval. The drain reads the characters
\* of the pipe up to position k: all the child has written, or less when the
\* child wrote the rest after the loop ended; the read that found no data
\* ended it in one of the ways of ReadEnds. When poll() (line 139) finds
\* the child gone, communicate() returns what the drains have not read.
update_label(r) ==
  /\ pc[r] = "interval"
  /\ \E k \in rd[r]..Len(out[r]) :
       LET drained == drain(output_lines[r], SubSeq(out[r], rd[r] + 1, k))
           rest == SubSeq(out[r], k + 1, Len(out[r]))
           final == remaining(drained, splitlines(rest))
       IN  \/ \* an exception of the read leaves the callback: no poll, no text
              /\ {how \in ReadEnds : ~swallowed(how)} # {}
              /\ rd' = [rd EXCEPT ![r] = k]
              /\ output_lines' = [output_lines EXCEPT ![r] = drained]
              /\ UNCHANGED <<pc, state, text, nterm, ncomm, stdout>>
           \/ /\ {how \in ReadEnds : swallowed(how)} # {}
              /\ IF proc[r] = "alive"
                 THEN /\ rd' = [rd EXCEPT ![r] = k]
                      /\ output_lines' = [output_lines EXCEPT ![r] = drained]
                      /\ text' = [text EXCEPT ![r] = RunningLabel(target[r], drained)]
                      /\ pc' = [pc EXCEPT ![r] = reschedule(TRUE)]
                      /\ UNCHANGED <<state, nterm, ncomm, stdout>>
                 ELSE /\ rd' = [rd EXCEPT ![r] = Len(out[r])]
                      /\ ncomm' = [ncomm EXCEPT ![r] = @ + 1]
                      /\ stdout' = [stdout EXCEPT ![r] = rest]
                      /\ IF stderr(r)
                         THEN /\ output_lines' = [output_lines EXCEPT ![r] = drained]
                              /\ text' = [text EXCEPT ![r] = ErrorLabel(target[r], errout[r])]
                              /\ state' = [state EXCEPT ![r] = "Failed"]
                         ELSE /\ output_lines' = [output_lines EXCEPT ![r] = final]
                              /\ text' = [text EXCEPT ![r] = FinalLabel(target[r], final)]
                              /\ state' = [state EXCEPT ![r] = "Completed"]
                      /\ nterm' = [nterm EXCEPT ![r] = @ + 1]
                      /\ pc' = [pc EXCEPT ![r] = reschedule(FALSE)]
  /\ UNCHANGED <<mode, content_box, target, err, cmd, procvars>>

\* ------------------------------------------------------------- system
Next ==
  \/ \E b \in ButtonTexts : on_mode_switch(b)
  \/ \E p \in Paths : main_widget_on_drop(p)
  \/ clear_items
  \/ \E r \in Runs : run_ls_command(r)
  \/ \E r \in Runs : show_error(r)
  \/ \E r \in Runs : update_label(r)
  \/ \E r \in Runs, c \in Chars : ProcWrite(r, c)
  \/ \E r \in Runs, code \in ExitCodes, e \in StderrTexts : ProcExit(r, code, e)

Spec == Init /\ [][Next]_vars

\* The widget once the learning button has been pressed, and the steps of
\* a session in which only directories are dropped from then on and the
\* rows are never cleared: the runs that are not cancelled.
InitLearning ==
  /\ mode = LEARNING
  /\ content_box = <<>>
  /\ platform = "linux"
  /\ NoRuns

NextLearning ==
  \/ main_widget_on_drop(DirPath)
  \/ \E r \in Runs : run_ls_command(r)
  \/ \E r \in Runs : show_error(r)
  \/ \E r \in Runs : update_label(r)
  \/ \E r \in Runs, c \in Chars : ProcWrite(r, c)
  \/ \E r \in Runs, code \in ExitCodes, e \in StderrTexts : ProcExit(r, code, e)

\* The same session on any host the module loads on.
InitAnyPlatform ==
  /\ mode = LEARNING
  /\ content_box = <<>>
  /\ platform \in Platforms
  /\ NoRuns

SpecCommand == InitAnyPlatform /\ [][NextLearning]_vars

\* A run just before its last tick: the child has written some text over
\* letters, blanks and line feeds, one tick has drained a part of it, and the
\* child has exited with an empty standard error.
ReconcileChars == {"a", "b", " ", "\n"}
Texts == UNION {[1..n -> ReconcileChars] : n \in 0..MaxText}

InitReconcile ==
  \E t \in Texts : \E k \in 0..Len(t) :
    LET first == [r \in Runs |-> r = 1]
        ls == drain(<<>>, SubSeq(t, 1, k))
    IN  /\ mode = LEARNING
        /\ content_box = <<RunRow(1)>>
        /\ platform = "linux"
        /\ pc = [r \in Runs |-> IF first[r] THEN "interval" ELSE "none"]
        /\ state = [r \in Runs |-> IF first[r] THEN "Running" ELSE "none"]
        /\ target = [r \in Runs |-> IF first[r] THEN DirPath ELSE ""]
        /\ proc = [r \in Runs |-> IF first[r] THEN "exited" ELSE "none"]
        /\ out = [r \in Runs |-> IF first[r] THEN t ELSE <<>>]
        /\ rd = [r \in Runs |-> IF first[r] THEN k ELSE 0]
        /\ errout = [r \in Runs |-> <<>>]
        /\ rc = [r \in Runs |-> 0]
        /\ err = [r \in Runs |-> <<>>]
        /\ output_lines = [r \in Runs |-> IF first[r] THEN ls ELSE <<>>]
        /\ text = [r \in Runs |->
                     IF first[r] THEN RunningLabel(DirPath, ls) ELSE <<>>]
        /\ nterm = [r \in Runs |-> 0]
        /\ ncomm = [r \in Runs |-> 0]
        /\ stdout = [r \in Runs |-> <<>>]
        /\ cmd = [r \in Runs |->
                    IF first[r] THEN command(platform, DirPath) ELSE <<>>]

NextReconcile == \E r \in Runs : update_label(r)

SpecReconcile == InitReconcile /\ [][NextReconcile]_vars

\* The clock fires a registered interval again and again: a tick that is
\* due is not postponed for ever.
SpecFair ==
  /\ InitLearning
  /\ [][NextLearning]_vars
  /\ \A r \in Runs : WF_vars(update_label(r))

\* ------------------------------------------------------------- claims
\* The run's label is no longer a child of content_box: clear_items was
\* called after the run's drop.
cleared(r) ==
  /\ state[r] # "none"
  /\ \A i \in 1..Len(content_box) : content_box[i] # RunRow(r)

\* The stripped, non-empty lines of a text.
TrimmedLines(s) ==
  {strip(splitlines(s)[i]) : i \in 1..Len(splitlines(s))} \ {<<>>}

Occurrences(x, s) == Cardinality({i \in 1..Len(s) : s[i] = x})

\* C1 (completeness): once a run is Completed, every non-empty trimmed line
\* of the child's whole standard output is in output_lines exactly once,
\* however the output was split between the drains and communicate().
C1_Completeness ==
  \A r \in Runs :
    state[r] = "Completed" =>
      \A l \in TrimmedLines(out[r]) : Occurrences(l, output_lines[r]) = 1

\* C2 (no duplicate lines): in every reachable state no two positions of
\* output_lines hold the same string.
C2_NoDuplicates ==
  \A r \in Runs :
    \A i, j \in 1..Len(output_lines[r]) :
      i # j => output_lines[r][i] # output_lines[r][j]

\* C3 (cancellation): once clear_items has removed the label of a run that
\* is starting or running, no tick of that run fires and the label's text
\* is not assigned again.
C3_Cancellation ==
  [][\A r \in Runs :
       (cleared(r) /\ state[r] \in {"Starting", "Running"}) =>
         (~update_label(r) /\ text'[r] = text[r])]_vars

IsPrefix(s, t) == Len(s) <= Len(t) /\ SubSeq(t, 1, Len(s)) = s

\* What the claims call a run's lines, state and published snapshot.
view(r) == <<output_lines[r], state[r], text[r]>>

\* C4 (terminal exclusivity): a Completed or Failed run has no interval or
\* one-shot callback pending, and no step fires its tick, changes its state,
\* its lines, its error text or the text of its label.
C4_TerminalExclusivity ==
  /\ [](\A r \in Runs : state[r] \in Terminal => pc[r] = "done")
  /\ [][\A r \in Runs :
          state[r] \in Terminal =>
            /\ ~update_label(r)
            /\ pc'[r] = "done"
            /\ view(r)' = view(r)
            /\ err'[r] = err[r] /\ errout'[r] = errout[r]
            /\ nterm'[r] = nterm[r]]_vars

C4_Witness ==
  \E r \in Runs :
    state[r] = "Completed" /\ output_lines[r] # <<>> /\ rd[r] = Len(out[r])

\* C5 (monotonic growth): across every step, and so from one tick to the
\* next, output_lines before is a prefix of output_lines after.
C5_MonotonicGrowth ==
  [][\A r \in Runs : IsPrefix(output_lines[r], output_lines'[r])]_vars

C5_Witness ==
  \E r \in Runs :
    /\ state[r] = "Running"
    /\ Len(output_lines[r]) >= 2
    /\ text[r] = RunningLabel(target[r], output_lines[r])

\* C6 (stderr failure): a run whose tick has seen the child gone is Failed
\* exactly when the child's standard error is not empty; its label is then
\* the header and the error text alone, and the interval has ended. With an
\* empty standard error it is Completed, whatever the exit status.
C6_StderrFailure ==
  \A r \in Runs :
    (nterm[r] >= 1 /\ err[r] = <<>>) =>
      /\ pc[r] = "done"
      /\ state[r] = "Failed" <=> errout[r] # <<>>
      /\ state[r] = "Failed" => text[r] = ErrorLabel(target[r], errout[r])
      /\ errout[r] = <<>> => state[r] = "Completed"

C6_Witness ==
  \E r, q \in Runs :
    /\ state[r] = "Failed" /\ err[r] = <<>> /\ rc[r] = 0
    /\ output_lines[r] # <<>>
    /\ state[q] = "Completed" /\ rc[q] # 0

C8_EventualTerminal ==
  /\ \A r \in Runs : (proc[r] = "exited") ~> (state[r] \in Terminal)
  /\ [](\A r \in Runs :
          nterm[r] <= 1 /\ (state[r] \in Terminal <=> nterm[r] = 1))
  /\ [][\A r \in Runs : nterm[r] = 1 => text'[r] = text[r]]_vars

C8_Witness ==
  \E r \in Runs :
    /\ proc[r] = "exited" /\ state[r] \in Terminal /\ nterm[r] = 1
    /\ rd[r] > 0 /\ ~cleared(r)

\* C9 (chunking independence): two Completed runs whose children wrote the
\* same standard output have the same output_lines.
C9_ChunkingIndependence ==
  \A r, q \in Runs :
    (state[r] = "Completed" /\ state[q] = "Completed" /\ out[r] = out[q]) =>
      output_lines[r] = output_lines[q]

\* C10 (run independence): a step changes the lines, state and label text
\* of at most one run, and a tick of one run those of no other run.
C10_RunIndependence ==
  [][/\ Cardinality({r \in Runs : view(r)' # view(r)}) <= 1
     /\ \A r \in Runs :
          update_label(r) => \A q \in Runs \ {r} : view(q)' = view(q)]_vars

C10_Witness ==
  \E r, q \in Runs :
    /\ r # q
    /\ state[r] = "Completed" /\ output_lines[r] # <<>>
    /\ state[q] = "Running" /\ output_lines[q] # <<>>

\* The steps of a run that the UI thread takes: the drop handler and the
\* two clock callbacks. run_ls_command is the step of the worker thread.
UIThreadStep(r) ==
  \/ update_label(r)
  \/ show_error(r)
  \/ \E p \in Paths : add_learning_item(r, p)

\* C11 (single writer): the worker thread's step leaves a run's lines and
\* label text as they are, on the success and on the failure path, and every
\* step that changes them is a step of the UI thread.
C11_SingleWriter ==
  [][\A r \in Runs :
       /\ run_ls_command(r) =>
            /\ output_lines'[r] = output_lines[r]
            /\ text'[r] = text[r]
            /\ nterm'[r] = nterm[r]
       /\ (output_lines'[r] # output_lines[r] \/ text'[r] # text[r]) =>
            UIThreadStep(r)]_vars

C11_Witness ==
  \E r, q \in Runs :
    /\ err[r] # <<>> /\ state[r] = "Failed"
    /\ err[q] = <<>> /\ state[q] = "Running" /\ output_lines[q] # <<>>

\* C12 as stated (platform command selection): the command given to Popen
\* is `ls -la <path>` on a POSIX-like host and `cmd /c dir <path>` on a
\* Windows-like host.
C12_PlatformCommand ==
  \A r \in Runs :
    cmd[r] # <<>> =>
      cmd[r] = IF platform \in WindowsLike
               THEN <<"cmd", "/c", "dir", target[r]>>
               ELSE <<"ls", "-la", target[r]>>

\* C12 as amended: once the worker thread of a run has run, the command it
\* gave to Popen is `ls -la <path>`, on every host.
C12_AlwaysLs ==
  \A r \in Runs :
    /\ pc[r] \in {"none", "thread"} <=> cmd[r] = <<>>
    /\ cmd[r] # <<>> => cmd[r] = <<"ls", "-la", target[r]>>

C12_Witness ==
  \E r \in Runs :
    /\ platform \in WindowsLike
    /\ state[r] = "Running"
    /\ cmd[r] = <<"ls", "-la", DirPath>>

\* The running marker is in a label text.
HasIndicator(t) == InSeq(RunningText, t)

\* The shape of the label of a run that has ticked: header, marker and
\* lines while the child was alive at the last tick, header and lines once
\* the run is Completed.
SnapshotShape(r) ==
  /\ (state[r] = "Running" /\ text[r] # <<"[", target[r], "]", "\n", RunningText>>) =>
       text[r] = <<"[", target[r], "]", "\n", RunningText, "\n">>
                   \o join(output_lines[r])
  /\ state[r] = "Completed" =>
       text[r] = <<"[", target[r], "]", "\n">> \o join(output_lines[r])

C14_FinalizeOnce ==
  /\ [](\A r \in Runs :
          /\ ncomm[r] <= 1
          /\ ncomm[r] = 1 => (proc[r] = "exited" /\ pc[r] = "done"))
  /\ [][\A r \in Runs :
          /\ ncomm'[r] # ncomm[r] => (proc[r] = "exited" /\ update_label(r))
          /\ ncomm[r] >= 1 => ~update_label(r)]_vars

C14_Witness ==
  \E r \in Runs :
    /\ ncomm[r] = 1 /\ proc[r] = "exited"
    /\ rd[r] = Len(out[r]) /\ Len(out[r]) = MaxOut

\* C17 (would-block is swallowed): a tick that finds the child alive, so
\* that its drain ended on a read with no data, keeps what the drain read
\* and nothing else, raises nothing and does not fail the run, and goes on
\* to publish the running text with those lines.
C17_WouldBlockSwallowed ==
  [][\A r \in Runs :
       (proc[r] = "alive" /\ update_label(r)) =>
         /\ \E k \in rd[r]..Len(out[r]) :
              /\ rd'[r] = k
              /\ output_lines'[r] =
                   output_lines[r] \o
                     [i \in 1..Len(readline(SubSeq(out[r], rd[r] + 1, k))) |->
                        strip(readline(SubSeq(out[r], rd[r] + 1, k))[i])]
         /\ state'[r] = "Running" /\ err'[r] = <<>> /\ pc'[r] = "interval"
         /\ text'[r] = <<"[", target[r], "]", "\n", RunningText, "\n">>
                         \o join(output_lines'[r])]_vars

C17_Witness ==
  \E r \in Runs :
    /\ proc[r] = "alive" /\ state[r] = "Running"
    /\ rd[r] = 1 /\ Len(out[r]) = 2
    /\ text[r] = RunningLabel(target[r], output_lines[r])

\* Index of the first line of text s whose stripped form is x.
FirstAt(x, s) ==
  CHOOSE i \in 1..Len(splitlines(s)) :
    /\ strip(splitlines(s)[i]) = x
    /\ \A j \in 1..(i - 1) : strip(splitlines(s)[j]) # x

\* res is ls followed by the stripped non-empty lines of the text rem that
\* are not in ls, each once, in the order in which rem first has them.
Reconciled(ls, rem, res) ==
  LET added == SubSeq(res, Len(ls) + 1, Len(res))
  IN  /\ IsPrefix(ls, res)
      /\ {added[i] : i \in 1..Len(added)} =
           TrimmedLines(rem) \ {ls[i] : i \in 1..Len(ls)}
      /\ \A i, j \in 1..Len(added) :
           i < j => (added[i] # added[j]
                     /\ FirstAt(added[i], rem) < FirstAt(added[j], rem))

\* C15 (final reconciliation step): the tick that completes a run leaves in
\* output_lines the lines its drain had, followed by exactly the stripped
\* non-empty lines of what communicate() returned that were not among them,
\* each once and in order; ["a"] with "a\nb\n" gives ["a","b"], and no lines
\* with "a\nb\nc\n" gives ["a","b","c"].
C15_FinalReconciliation ==
  [][/\ \A r \in Runs :
          (state[r] = "Running" /\ state'[r] = "Completed") =>
            LET k == Len(out[r]) - Len(stdout'[r])
                had == output_lines[r] \o
                         [i \in 1..Len(readline(SubSeq(out[r], rd[r] + 1, k))) |->
                            strip(readline(SubSeq(out[r], rd[r] + 1, k))[i])]
            IN  /\ k >= rd[r]
                /\ stdout'[r] = SubSeq(out[r], k + 1, Len(out[r]))
                /\ Reconciled(had, stdout'[r], output_lines'[r])
     /\ remaining(<<<<"a">>>>, splitlines(<<"a", "\n", "b", "\n">>))
          = <<<<"a">>, <<"b">>>>
     /\ remaining(<<>>, splitlines(<<"a", "\n", "b", "\n", "c", "\n">>))
          = <<<<"a">>, <<"b">>, <<"c">>>>]_vars

C15_Witness ==
  \E r \in Runs :
    /\ state[r] = "Completed"
    /\ out[r] = <<"a", "a", "\n", "b", "\n">>
    /\ stdout[r] = <<"a", "\n", "b", "\n">>
    /\ output_lines[r] = <<<<"a">>, <<"b">>>>

\* The runs a step starts.
Started == {r \in Runs : pc[r] = "none" /\ pc'[r] # "none"}

\* C16 (run creation on drop): a drop starts one run, with its label shown
\* and its worker thread pending, when the path is a directory and the mode
\* is learning, and no run otherwise; a file dropped in learning mode only
\* adds the message row; nothing but such a drop starts a run, and a run's
\* thread and interval are each set up once.
C16_RunCreation ==
  [][/\ \A p \in Paths :
          main_widget_on_drop(p) =>
            /\ Cardinality(Started) =
                 IF p = DirPath /\ mode = LEARNING THEN 1 ELSE 0
            /\ \A r \in Started :
                 /\ pc'[r] = "thread" /\ proc'[r] = "none"
                 /\ content_box' = Append(content_box, RunRow(r))
            /\ (p = FilePath /\ mode = LEARNING) =>
                 content_box' = Append(content_box, MessageRow)
     /\ Started # {} => (mode = LEARNING /\ main_widget_on_drop(DirPath))
     /\ \A r \in Runs :
          /\ pc'[r] = "thread" => pc[r] \in {"none", "thread"}
          /\ pc'[r] = "interval" => pc[r] \in {"thread", "interval"}
          /\ proc'[r] = "alive" => (proc[r] = "alive" \/ pc[r] = "thread")]_vars

C16_Witness ==
  \E r \in Runs : \E i, j \in 1..Len(content_box) :
    /\ mode = LEARNING
    /\ content_box[i] = MessageRow
    /\ content_box[j] = RunRow(r) /\ pc[r] = "interval"

\* C18 (no empty entries): in every reachable state output_lines holds no
\* empty string.
C18_NoEmptyEntries ==
  \A r \in Runs :
    \A i \in 1..Len(output_lines[r]) : output_lines[r][i] # <<>>

====
